---- MODULE Spec2Model ----
(***************************************************************************)
(* Balance<K>, the sparse ledger of src/sim/model.rs and                   *)
(* src/sim/model_old.rs: new, Add (&a + &b), Mul<i64> (&a * n), the        *)
(* derived PartialEq and the derived Serialize.                            *)
(*                                                                         *)
(* Quantities are i64.  A quantity is held as three limbs <<hi, mid, lo>>  *)
(* standing for hi * Base^2 + mid * Base + lo with 0 <= mid, lo < Base;    *)
(* it is an i64 exactly when -HiHalf <= hi < HiHalf.  The limbs keep the   *)
(* full 64-bit width, so overflow happens at the real i64 limits.          *)
(***************************************************************************)
EXTENDS Integers, Sequences, FiniteSets, TLC

\* ---------------------------------------------------------------- bounds
\* Number of calls (new, add, mul, eq, serialize) made in one run.
MaxCalls == 3

\* ------------------------------------------------------------ i64 values
\* Width of a quantity: `amounts: BTreeMap<K, i64>`.
I64Bits == 64
Base == 2^21
HiHalf == 2^(I64Bits - 43)

\* The integer hi * Base^2 + mid * Base + lo, limbs carried into range.
Norm(hi, mid, lo) ==
    LET m == mid + (lo \div Base)
    IN  <<hi + (m \div Base), m % Base, lo % Base>>

FromInt(k) == Norm(0, 0, k)
Zero == FromInt(0)
I64Max == <<HiHalf - 1, Base - 1, Base - 1>>

\* Exact integer sum and product by a small integer (no width).
XAdd(x, y) == Norm(x[1] + y[1], x[2] + y[2], x[3] + y[3])
XMul(x, k) == Norm(x[1] * k, x[2] * k, x[3] * k)

InI64(x) == -HiHalf <= x[1] /\ x[1] < HiHalf
\* Two's complement reduction modulo 2^64.
Wrap(x) == <<((x[1] + HiHalf) % (2 * HiHalf)) - HiHalf, x[2], x[3]>>

\* `a + b` on i64 (model.rs:73, model_old.rs:94, model_old.rs:110): with
\* overflow checks on (debug profile) an overflowing sum panics, with them
\* off (release profile) it wraps.
I64Add(x, y, checks) ==
    LET s == XAdd(x, y)
    IN  IF InI64(s) THEN [panic |-> FALSE, val |-> s]
        ELSE IF checks THEN [panic |-> TRUE, val |-> Zero]
        ELSE [panic |-> FALSE, val |-> Wrap(s)]

\* ---------------------------------------------------------------- keys
\* K: Ord.  BTreeMap iterates in key order.
KeySeq == <<"plank", "wood">>
Keys == {KeySeq[i] : i \in 1..Len(KeySeq)}

\* ------------------------------------------------------------- Balance
\* A Balance is its `amounts` map: a function from a set of keys to i64.
Amounts(pairs) == [k \in {p[1] : p \in pairs} |-> (CHOOSE p \in pairs : p[1] = k)[2]]

\* Balance::new()
new == Amounts({})

\* Quantity of key k, an absent key read as zero.
Get(bal, k) == IF k \in DOMAIN bal THEN bal[k] ELSE Zero

\* The Balance values the caller holds, by name.
Refs == {"a", "b"}
\* The cell of the local `out` of add.
TmpRef == "out"

\* self.clone(): a fresh map holding a copy of self's entries.
CloneAlias(h, s) == [heap |-> h, ref |-> s]
CloneEmpty(h, s) == [heap |-> [h EXCEPT ![TmpRef] = new], ref |-> TmpRef]
clone(h, s) == [heap |-> [h EXCEPT ![TmpRef] = h[s]], ref |-> TmpRef]

\* The value or_insert puts under a vacant key.
OrInsertOne == FromInt(1)
OrInsertDefault == Zero

\* *lhs_value += rhs_value
AssignOnly(lhs_value, rhs_value, checks) == [panic |-> FALSE, val |-> rhs_value]
AddAssign(lhs_value, rhs_value, checks) == I64Add(lhs_value, rhs_value, checks)

\* out.amounts.entry(key).or_insert(0)
or_insert(bal, key) ==
    IF key \in DOMAIN bal THEN bal
    ELSE [k \in DOMAIN bal \cup {key} |-> IF k = key THEN OrInsertDefault ELSE bal[k]]

\* The loop of add over rhs.amounts.iter(), from the i-th key on.
RECURSIVE AddLoop(_, _, _, _, _)
AddLoop(h, o, r, i, checks) ==
    IF i > Len(KeySeq) THEN [panic |-> FALSE, heap |-> h]
    ELSE LET key == KeySeq[i]
         IN  IF key \notin DOMAIN h[r] THEN AddLoop(h, o, r, i + 1, checks)
             ELSE LET ins == or_insert(h[o], key)
                      sum == AddAssign(ins[key], h[r][key], checks)
                  IN  IF sum.panic
                      THEN [panic |-> TRUE, heap |-> [h EXCEPT ![o] = ins]]
                      ELSE AddLoop([h EXCEPT ![o] = [ins EXCEPT ![key] = sum.val]],
                                   o, r, i + 1, checks)

\* <&Balance as Add>::add on the cells s (self) and r (rhs) of heap hp.
\* Yields the heap after the call and the returned Balance.
add(hp, s, r, checks) ==
    LET h0 == [x \in DOMAIN hp \cup {TmpRef} |-> IF x \in DOMAIN hp THEN hp[x] ELSE new]
        c  == clone(h0, s)
        l  == AddLoop(c.heap, c.ref, r, 1, checks)
    IN  [panic |-> l.panic,
         heap  |-> [x \in DOMAIN hp |-> l.heap[x]],
         out   |-> IF l.panic THEN new ELSE l.heap[c.ref]]

\* add on two Balance values.
addv(a, b, checks) ==
    add([x \in {"self", "rhs"} |-> IF x = "self" THEN a ELSE b], "self", "rhs", checks)

\* <&Balance as Mul<i64>>::mul: each (k, v) mapped to (k, v + rhs).
mul(bal, rhs, checks) ==
    LET e == [k \in DOMAIN bal |-> I64Add(bal[k], rhs, checks)]
    IN  [panic |-> \E k \in DOMAIN bal : e[k].panic,
         out   |-> IF \E k \in DOMAIN bal : e[k].panic THEN new
                   ELSE [k \in DOMAIN bal |-> e[k].val]]

\* derive(PartialEq): self.amounts == other.amounts, entry by entry.
eq(a, b) == DOMAIN a = DOMAIN b /\ \A k \in DOMAIN a : a[k] = b[k]

\* derive(Serialize): a struct named Balance with the one field `amounts`,
\* itself serialized as a map.
SerializeMap(m) == [type |-> "map", entries |-> m]
serialize(bal) ==
    [type |-> "struct", name |-> "Balance",
     fields |-> <<[name |-> "amounts", value |-> SerializeMap(bal)]>>]

\* ---------------------------------------------------------------- inputs
\* Balances a configuration may hold.
BalanceInputs ==
    { new,
      Amounts({<<"wood", FromInt(-2)>>, <<"plank", FromInt(1)>>}),
      Amounts({<<"wood", I64Max>>}),
      Amounts({<<"wood", FromInt(1)>>}),
      Amounts({<<"wood", FromInt(-1)>>}),
      Amounts({<<"plank", FromInt(0)>>}) }

ScalarInts == {-1, 0, 1, 2, 3}

\* ----------------------------------------------------------------- state
VARIABLES
    overflow_checks,  \* the build's overflow-checks setting
    heap,             \* the Balance values the caller holds
    last,             \* the last call: its operation, operands and the heap before it
    ret,              \* what the last call returned
    calls             \* number of calls made

vars == <<overflow_checks, heap, last, ret, calls>>

NoCall == [op |-> "none", self |-> "", rhs |-> "", n |-> 0, pre |-> <<>>]
NoRet == [tag |-> "none", val |-> new]
Ok(bal) == [tag |-> "ok", val |-> bal]
Panicked == [tag |-> "panic", val |-> new]

Init ==
    /\ overflow_checks \in BOOLEAN
    /\ heap \in [Refs -> BalanceInputs]
    /\ last = NoCall
    /\ ret = NoRet
    /\ calls = 0

\* let d = Balance::new();
New(d) ==
    /\ calls < MaxCalls
    /\ heap' = [heap EXCEPT ![d] = new]
    /\ last' = [op |-> "new", self |-> d, rhs |-> "", n |-> 0, pre |-> heap]
    /\ ret' = NoRet
    /\ calls' = calls + 1
    /\ UNCHANGED overflow_checks

\* &heap[i] + &heap[j]
Add(i, j) ==
    /\ calls < MaxCalls
    /\ LET r == add(heap, i, j, overflow_checks)
       IN  /\ heap' = r.heap
           /\ ret' = IF r.panic THEN Panicked ELSE Ok(r.out)
    /\ last' = [op |-> "add", self |-> i, rhs |-> j, n |-> 0, pre |-> heap]
    /\ calls' = calls + 1
    /\ UNCHANGED overflow_checks

\* &heap[i] * n
Mul(i, n) ==
    /\ calls < MaxCalls
    /\ LET r == mul(heap[i], FromInt(n), overflow_checks)
       IN  ret' = IF r.panic THEN Panicked ELSE Ok(r.out)
    /\ last' = [op |-> "mul", self |-> i, rhs |-> "", n |-> n, pre |-> heap]
    /\ calls' = calls + 1
    /\ UNCHANGED <<overflow_checks, heap>>

\* heap[i] == heap[j]
Eq(i, j) ==
    /\ calls < MaxCalls
    /\ ret' = [tag |-> "bool", val |-> eq(heap[i], heap[j])]
    /\ last' = [op |-> "eq", self |-> i, rhs |-> j, n |-> 0, pre |-> heap]
    /\ calls' = calls + 1
    /\ UNCHANGED <<overflow_checks, heap>>

\* heap[i].serialize(serializer)
Serialize(i) ==
    /\ calls < MaxCalls
    /\ ret' = [tag |-> "ser", val |-> serialize(heap[i])]
    /\ last' = [op |-> "serialize", self |-> i, rhs |-> "", n |-> 0, pre |-> heap]
    /\ calls' = calls + 1
    /\ UNCHANGED <<overflow_checks, heap>>

\* The returned Balance is moved into the caller's d.
Take(d) ==
    /\ ret.tag = "ok"
    /\ heap' = [heap EXCEPT ![d] = ret.val]
    /\ last' = NoCall
    /\ ret' = NoRet
    /\ UNCHANGED <<overflow_checks, calls>>

Next ==
    \/ \E d \in Refs : New(d)
    \/ \E i, j \in Refs : Add(i, j)
    \/ \E i \in Refs, n \in ScalarInts : Mul(i, n)
    \/ \E i, j \in Refs : Eq(i, j)
    \/ \E i \in Refs : Serialize(i)
    \/ \E d \in Refs : Take(d)

Spec == Init /\ [][Next]_vars

\* ------------------------------------------------------- the last call
\* The operands of the last call, as they were when it was made.
Self == last.pre[last.self]
Rhs == last.pre[last.rhs]

\* An operation applied to the outcome of an earlier one: a panic of the
\* earlier call leaves nothing to apply it to.
Combine(x, y) ==
    IF x.tag = "panic" \/ y.tag = "panic" THEN Panicked
    ELSE LET r == addv(x.val, y.val, overflow_checks)
         IN  IF r.panic THEN Panicked ELSE Ok(r.out)

Scale(x, n) ==
    IF x.tag = "panic" THEN Panicked
    ELSE LET r == mul(x.val, FromInt(n), overflow_checks)
         IN  IF r.panic THEN Panicked ELSE Ok(r.out)

\* Two outcomes agree: both panicked, or both returned equal Balances.
SameOutcome(x, y) ==
    /\ x.tag = y.tag
    /\ x.tag = "ok" => eq(x.val, y.val)

\* ---------------------------------------------------------------- claims

\* C1: combine(a, b) returns a Balance whose key set is the union of the
\* operands' key sets and whose quantity for each key k is a[k] + b[k],
\* an absent key counted as 0.
C1_CombineSumsEveryKey ==
    (last.op = "add" /\ ret.tag = "ok") =>
        /\ DOMAIN ret.val = DOMAIN Self \cup DOMAIN Rhs
        /\ \A k \in DOMAIN ret.val : ret.val[k] = XAdd(Get(Self, k), Get(Rhs, k))

\* C2: scale(a, n) returns a Balance with the key set of a in which every
\* key k maps to a[k] * n.
C2_ScaleMultiplies ==
    (last.op = "mul" /\ ret.tag = "ok") =>
        /\ DOMAIN ret.val = DOMAIN Self
        /\ \A k \in DOMAIN ret.val : ret.val[k] = XMul(Self[k], last.n)

\* C3: two Balances are equal iff they agree on every key after absent
\* keys are read as 0.
C3_EqualityIgnoresZeroEntries ==
    last.op = "eq" =>
        (ret.val <=> \A k \in Keys : Get(Self, k) = Get(Rhs, k))

C5_Commutative ==
    last.op = "add" => SameOutcome(ret, Combine(Ok(Rhs), Ok(Self)))

C5_Witness ==
    /\ last.op = "add" /\ ret.tag = "ok"
    /\ Self # new /\ Rhs # new
    /\ DOMAIN Self # DOMAIN Rhs
    /\ eq(ret.val, Combine(Ok(Rhs), Ok(Self)).val)

\* C6: combine(a, Balance::new()) returns a Balance equal to a.
C6_EmptyIsIdentity ==
    (last.op = "add" /\ Rhs = new) => (ret.tag = "ok" /\ eq(ret.val, Self))

C6_Witness ==
    /\ last.op = "add" /\ Rhs = new
    /\ Cardinality(DOMAIN Self) = 2
    /\ ret = Ok(Self)

\* C7: scale(scale(a, n), m) and scale(a, n * m) have the same outcome.
C7_ScaleComposes ==
    last.op = "mul" =>
        \A m \in ScalarInts :
            SameOutcome(Scale(ret, m), Scale(Ok(Self), last.n * m))

\* C8: after a combine or a scale call every Balance the caller holds has
\* the key set and the quantities it had before the call.
C8_OperandsUnchanged ==
    last.op \in {"add", "mul"} => heap = last.pre

C8_Witness ==
    /\ calls = MaxCalls
    /\ last.op = "add" /\ ret.tag = "ok"
    /\ ret.val # Self /\ ret.val # Rhs
    /\ heap = last.pre
    /\ heap \notin [Refs -> BalanceInputs]

\* C9: whenever the exact result for some key is outside the i64 range
\* (a[k] + b[k] for combine, the scaled value for scale) the call fails
\* instead of returning a Balance.
C9_NeverWraps ==
    /\ (last.op = "add" /\ \E k \in Keys : ~InI64(XAdd(Get(Self, k), Get(Rhs, k))))
          => ret.tag = "panic"
    /\ (last.op = "mul" /\ \E k \in DOMAIN Self : ~InI64(XMul(Self[k], last.n)))
          => ret.tag = "panic"

\* C10: the serialized form of a Balance is the map of its entries, with
\* no record around it.
C10_SerializesAsPlainMap ==
    last.op = "serialize" => ret.val = SerializeMap(Self)

====
